---------------------------- MODULE Spec2Model ----------------------------
(***************************************************************************)
(* A model of anevicon's src/config.rs: ArgsConfig::from_matches, the      *)
(* error types ArgsConfigError and PacketLengthError, and their Display    *)
(* implementations.                                                        *)
(*                                                                         *)
(* A raw argument is a sequence of one-character strings (TLC cannot index *)
(* into a string).  from_matches is one sequential function; the model     *)
(* follows its position field by field, so that the order of the look-ups  *)
(* and the early returns of the `?` operator are visible.                  *)
(***************************************************************************)
EXTENDS Integers, Sequences, FiniteSets, TLC

(***************************************************************************)
(* Program constants and model bounds.                                     *)
(***************************************************************************)
MIN_PACKET_LENGTH == 1
MAX_PACKET_LENGTH == 65000

\* Width of usize on the target.  16 bits is the narrowest width Rust has a
\* target for, and the narrowest that holds MAX_PACKET_LENGTH.
UsizeBits == 16

USIZE_MAX == 2^UsizeBits - 1

\* How far above MAX_PACKET_LENGTH the exhaustive sweep of SpecRange goes.
RangeSlack == 2

(***************************************************************************)
(* Characters and Option.                                                  *)
(***************************************************************************)
Digits == <<"0", "1", "2", "3", "4", "5", "6", "7", "8", "9">>

IsDigit(c) == \E i \in 1..10 : Digits[i] = c

DigitVal(c) == (CHOOSE i \in 1..10 : Digits[i] = c) - 1

IsAlpha(c) ==
    c \in {"a", "b", "c", "d", "e", "f", "g", "h", "i", "j", "k", "l", "m",
           "n", "o", "p", "q", "r", "s", "t", "u", "v", "w", "x", "y", "z",
           "A", "B", "C", "D", "E", "F", "G", "H", "I", "J", "K", "L", "M",
           "N", "O", "P", "Q", "R", "S", "T", "U", "V", "W", "X", "Y", "Z"}

IsWhitespace(c) == c = " "

\* Option<&str>, the value of ArgMatches::value_of.
Some(s) == [present |-> TRUE, str |-> s]
None == [present |-> FALSE, str |-> <<>>]

(***************************************************************************)
(* <usize as FromStr>::from_str: an optional leading "+", then decimal     *)
(* digits accumulated with checked_mul and checked_add.  A "-" is not      *)
(* stripped for an unsigned type, so it is an invalid digit.  (A lone "+"   *)
(* is Empty or InvalidDigit by the version of std; no input here is one.)  *)
(***************************************************************************)
\* Mutant: wrapping arithmetic in place of checked_mul and checked_add.
RECURSIVE AccumulateUsizeWrapping(_, _)
AccumulateUsizeWrapping(digits, acc) ==
    IF digits = <<>> THEN [ok |-> TRUE, val |-> acc, err |-> "none"]
    ELSE IF ~IsDigit(Head(digits)) THEN [ok |-> FALSE, val |-> 0, err |-> "InvalidDigit"]
    ELSE AccumulateUsizeWrapping(Tail(digits),
                                 (acc * 10 + DigitVal(Head(digits))) % (USIZE_MAX + 1))

RECURSIVE AccumulateUsize(_, _)
AccumulateUsize(digits, acc) ==
    IF digits = <<>> THEN [ok |-> TRUE, val |-> acc, err |-> "none"]
    ELSE IF ~IsDigit(Head(digits)) THEN [ok |-> FALSE, val |-> 0, err |-> "InvalidDigit"]
    ELSE IF acc * 10 > USIZE_MAX THEN [ok |-> FALSE, val |-> 0, err |-> "PosOverflow"]
    ELSE IF acc * 10 + DigitVal(Head(digits)) > USIZE_MAX
         THEN [ok |-> FALSE, val |-> 0, err |-> "PosOverflow"]
    ELSE AccumulateUsize(Tail(digits), acc * 10 + DigitVal(Head(digits)))

ParseUsize(s) ==
    IF s = <<>> THEN [ok |-> FALSE, val |-> 0, err |-> "Empty"]
    ELSE LET digits == IF Head(s) = "+" THEN Tail(s) ELSE s
         IN  IF digits = <<>> THEN [ok |-> FALSE, val |-> 0, err |-> "InvalidDigit"]
             ELSE AccumulateUsize(digits, 0)

\* impl Display for ParseIntError
ParseIntErrorMessage(kind) ==
    CASE kind = "Empty" -> "cannot parse integer from empty string"
      [] kind = "InvalidDigit" -> "invalid digit found in string"
      [] kind = "PosOverflow" -> "number too large to fit in target type"
      [] OTHER -> "number too small to fit in target type"

(***************************************************************************)
(* <SocketAddr as FromStr>::from_str, for the IPv4 form a.b.c.d:port (the  *)
(* inputs of this model hold no "[", so the IPv6 form never applies).      *)
(* read_number reads decimal digits, at most max_digits of them, and fails *)
(* once the value reaches upto.  (Whether an octet may start with "0"      *)
(* varies with the version of std; no input here has such an octet.)       *)
(***************************************************************************)
RECURSIVE ReadNumber(_, _, _, _, _, _)
ReadNumber(s, pos, r, count, max_digits, upto) ==
    IF pos <= Len(s) /\ IsDigit(s[pos])
    THEN LET r2 == r * 10 + DigitVal(s[pos])
         IN  IF count + 1 > max_digits \/ r2 >= upto
             THEN [ok |-> FALSE, val |-> 0, next |-> pos]
             ELSE ReadNumber(s, pos + 1, r2, count + 1, max_digits, upto)
    ELSE IF count = 0 THEN [ok |-> FALSE, val |-> 0, next |-> pos]
    ELSE [ok |-> TRUE, val |-> r, next |-> pos]

RECURSIVE ReadIpv4Addr(_, _, _, _)
ReadIpv4Addr(s, pos, i, bs) ==
    IF i = 4 THEN [ok |-> TRUE, ip |-> bs, next |-> pos]
    ELSE IF i # 0 /\ ~(pos <= Len(s) /\ s[pos] = ".")
         THEN [ok |-> FALSE, ip |-> <<>>, next |-> pos]
    ELSE LET n == ReadNumber(s, IF i = 0 THEN pos ELSE pos + 1, 0, 0, 3, 256)
         IN  IF ~n.ok THEN [ok |-> FALSE, ip |-> <<>>, next |-> pos]
             ELSE ReadIpv4Addr(s, n.next, i + 1, Append(bs, n.val))

NoAddr == [ip |-> <<>>, port |-> 0]

ParseSocketAddr(s) ==
    LET ip == ReadIpv4Addr(s, 1, 0, <<>>)
        bad == [ok |-> FALSE, val |-> NoAddr, err |-> "AddrParseError"]
    IN  IF ~ip.ok THEN bad
        ELSE IF ~(ip.next <= Len(s) /\ s[ip.next] = ":") THEN bad
        ELSE LET port == ReadNumber(s, ip.next + 1, 0, 0, 5, 2^16)
             IN  IF port.ok /\ port.next = Len(s) + 1
                 THEN [ok |-> TRUE, val |-> [ip |-> ip.ip, port |-> port.val],
                       err |-> "none"]
                 ELSE bad

\* impl Display for AddrParseError
AddrParseErrorMessage(kind) == "invalid IP address syntax"

(***************************************************************************)
(* humantime::parse_duration: numbers each followed by a unit name.  A     *)
(* Duration is <<seconds, nanoseconds>>.  The u64 products cannot overflow *)
(* on the short inputs of this model, so NumberOverflow is never produced. *)
(***************************************************************************)
NoDuration == <<0, 0>>

DurationFail(kind, a, b) ==
    [ok |-> FALSE, val |-> NoDuration, err |-> [kind |-> kind, a |-> a, b |-> b]]

NoDurationError == [kind |-> "none", a |-> 0, b |-> 0]

\* Parser::parse_first_char: skip whitespace up to the first digit.
RECURSIVE ParseFirstChar(_, _)
ParseFirstChar(s, pos) ==
    IF pos > Len(s) THEN [ok |-> TRUE, some |-> FALSE, n |-> 0, next |-> pos]
    ELSE IF IsDigit(s[pos])
         THEN [ok |-> TRUE, some |-> TRUE, n |-> DigitVal(s[pos]), next |-> pos + 1]
    ELSE IF IsWhitespace(s[pos]) THEN ParseFirstChar(s, pos + 1)
    ELSE [ok |-> FALSE, some |-> FALSE, n |-> 0, next |-> pos]

\* The first inner loop of Parser::parse: the rest of the number, up to and
\* including the first letter of the unit (start is where the unit begins).
RECURSIVE ReadNumberPart(_, _, _)
ReadNumberPart(s, pos, n) ==
    IF pos > Len(s) THEN [ok |-> TRUE, n |-> n, start |-> pos, next |-> pos]
    ELSE IF IsDigit(s[pos]) THEN ReadNumberPart(s, pos + 1, n * 10 + DigitVal(s[pos]))
    ELSE IF IsWhitespace(s[pos]) THEN ReadNumberPart(s, pos + 1, n)
    ELSE IF IsAlpha(s[pos]) THEN [ok |-> TRUE, n |-> n, start |-> pos, next |-> pos + 1]
    ELSE [ok |-> FALSE, n |-> n, start |-> pos, next |-> pos]

\* The second inner loop: the rest of the unit name, ended by a digit (the
\* next number follows at once), by whitespace or by the end of the input.
RECURSIVE ReadUnitPart(_, _)
ReadUnitPart(s, pos) ==
    IF pos > Len(s) THEN [ok |-> TRUE, stop |-> pos, by |-> "eof"]
    ELSE IF IsDigit(s[pos]) THEN [ok |-> TRUE, stop |-> pos, by |-> "digit"]
    ELSE IF IsWhitespace(s[pos]) THEN [ok |-> TRUE, stop |-> pos, by |-> "space"]
    ELSE IF IsAlpha(s[pos]) THEN ReadUnitPart(s, pos + 1)
    ELSE [ok |-> FALSE, stop |-> pos, by |-> "invalid"]

\* The table of Parser::parse_unit: <<seconds, nanoseconds>> of one unit.
UnitTable ==
    [name \in {<<"n", "s">>, <<"u", "s">>, <<"m", "s">>, <<"s">>, <<"s", "e", "c">>,
               <<"m">>, <<"m", "i", "n">>, <<"h">>, <<"h", "r">>, <<"d">>, <<"w">>,
               <<"M">>, <<"y">>} |->
        CASE name = <<"n", "s">> -> <<0, 1>>
          [] name = <<"u", "s">> -> <<0, 1000>>
          [] name = <<"m", "s">> -> <<0, 1000000>>
          [] name \in {<<"s">>, <<"s", "e", "c">>} -> <<1, 0>>
          [] name \in {<<"m">>, <<"m", "i", "n">>} -> <<60, 0>>
          [] name \in {<<"h">>, <<"h", "r">>} -> <<3600, 0>>
          [] name = <<"d">> -> <<86400, 0>>
          [] name = <<"w">> -> <<604800, 0>>
          [] name = <<"M">> -> <<2630016, 0>>
          [] OTHER -> <<31557600, 0>>]

\* Parser::parse_unit: add n units to the running total cur.
ParseUnit(s, n, start, end, cur) ==
    LET name == SubSeq(s, start, end - 1)
    IN  IF name \notin DOMAIN UnitTable
        THEN DurationFail("UnknownUnit", start - 1, end - 1)
        ELSE LET sec == n * UnitTable[name][1]
                 nsec0 == cur[2] + n * UnitTable[name][2]
                 carry == IF nsec0 > 1000000000 THEN nsec0 \div 1000000000 ELSE 0
                 nsec == IF nsec0 > 1000000000 THEN nsec0 % 1000000000 ELSE nsec0
             IN  [ok |-> TRUE, val |-> <<cur[1] + sec + carry, nsec>>,
                  err |-> NoDurationError]

\* The outer loop of Parser::parse, entered with the first digit n read.
RECURSIVE ParseLoop(_, _, _, _)
ParseLoop(s, pos, n, cur) ==
    LET num == ReadNumberPart(s, pos, n)
    IN  IF ~num.ok THEN DurationFail("InvalidCharacter", num.start - 1, 0)
        ELSE LET unit == ReadUnitPart(s, num.next)
             IN  IF ~unit.ok THEN DurationFail("InvalidCharacter", unit.stop - 1, 0)
                 ELSE LET total == ParseUnit(s, num.n, num.start, unit.stop, cur)
                      IN  IF ~total.ok THEN total
                          ELSE IF unit.by = "digit"
                               THEN ParseLoop(s, unit.stop + 1, DigitVal(s[unit.stop]),
                                              total.val)
                          ELSE LET first == ParseFirstChar(s, unit.stop + 1)
                               IN  IF ~first.ok
                                   THEN DurationFail("NumberExpected", first.next - 1, 0)
                                   ELSE IF ~first.some THEN total
                                   ELSE ParseLoop(s, first.next, first.n, total.val)

parse_duration(s) ==
    LET first == ParseFirstChar(s, 1)
    IN  IF ~first.ok THEN DurationFail("NumberExpected", first.next - 1, 0)
        ELSE IF ~first.some THEN DurationFail("Empty", 0, 0)
        ELSE ParseLoop(s, first.next, first.n, <<0, 0>>)

\* impl Display for humantime::DurationError
DurationErrorMessage(e) ==
    CASE e.kind = "InvalidCharacter" -> "invalid character at " \o ToString(e.a)
      [] e.kind = "NumberExpected" -> "expected number at " \o ToString(e.a)
      [] e.kind = "UnknownUnit" ->
            "unknown unit at " \o ToString(e.a) \o "-" \o ToString(e.b)
      [] e.kind = "NumberOverflow" -> "number is too large"
      [] OTHER -> "value was empty"

(***************************************************************************)
(* The values of from_matches: ArgsConfig, ArgsConfigError and             *)
(* PacketLengthError.                                                      *)
(***************************************************************************)
\* Mutant: receiver and sender initialised from each other's expression.
ArgsConfigSwapped(r, s, d, l, w, p) ==
    [receiver |-> s, sender |-> r, duration |-> d, length |-> l, waiting |-> w,
     periodicity |-> p]

ArgsConfig(r, s, d, l, w, p) ==
    [receiver |-> r, sender |-> s, duration |-> d, length |-> l, waiting |-> w,
     periodicity |-> p]

NoConfig == ArgsConfig(NoAddr, NoAddr, NoDuration, 0, NoDuration, NoDuration)

\* enum ArgsConfigError: the variant and the error it carries.
ArgsConfigError(tag, inner) == [tag |-> tag, inner |-> inner]

\* enum PacketLengthError: InvalidFormat carries a ParseIntError.
PacketLengthError(tag, inner) == [tag |-> tag, inner |-> inner]

NoError == ArgsConfigError("none", "none")

Pending == [kind |-> "Pending", config |-> NoConfig, error |-> NoError]
Ok(config) == [kind |-> "Ok", config |-> config, error |-> NoError]
Err(error) == [kind |-> "Err", config |-> NoConfig, error |-> error]

\* Mutant: the messages of Overflow and Underflow exchanged.
DisplayPacketLengthErrorSwapped(e) ==
    CASE e.tag = "InvalidFormat" -> ParseIntErrorMessage(e.inner)
      [] e.tag = "Overflow" -> "Underflow occurred"
      [] OTHER -> "Overflow occurred"

\* impl Display for PacketLengthError
DisplayPacketLengthError(e) ==
    CASE e.tag = "InvalidFormat" -> ParseIntErrorMessage(e.inner)
      [] e.tag = "Overflow" -> "Overflow occurred"
      [] OTHER -> "Underflow occurred"

\* impl Display for ArgsConfigError
DisplayArgsConfigError(e) ==
    CASE e.tag = "Receiver" ->
            "An invalid receiver address was specified: "
                \o AddrParseErrorMessage(e.inner) \o "!"
      [] e.tag = "Sender" ->
            "An invalid sender address was specified: "
                \o AddrParseErrorMessage(e.inner) \o "!"
      [] e.tag = "Duration" ->
            "An invalid duration format was specified: "
                \o DurationErrorMessage(e.inner) \o "!"
      [] e.tag = "Length" ->
            "An invalid packet length was specified: "
                \o DisplayPacketLengthError(e.inner)
                \o ". A packet length must be in the range of [1; 65000]!"
      [] e.tag = "Waiting" ->
            "An invalid waiting duration was specified: "
                \o DurationErrorMessage(e.inner) \o "!"
      [] OTHER ->
            "An invalid periodicity was specified: "
                \o DurationErrorMessage(e.inner) \o "!"

\* Mutant: MAX_PACKET_LENGTH itself rejected (>= for >).
LengthRangeErrorExclusiveMax(len) ==
    IF len < MIN_PACKET_LENGTH THEN "Underflow"
    ELSE IF len >= MAX_PACKET_LENGTH THEN "Overflow"
    ELSE "none"

\* Mutant: the two range errors exchanged.
LengthRangeErrorSwapped(len) ==
    IF len < MIN_PACKET_LENGTH THEN "Overflow"
    ELSE IF len > MAX_PACKET_LENGTH THEN "Underflow"
    ELSE "none"

\* Mutant: the upper bound not checked.
LengthRangeErrorNoUpper(len) ==
    IF len < MIN_PACKET_LENGTH THEN "Underflow"
    ELSE "none"

\* The range check of from_matches on the parsed length.
LengthRangeError(len) ==
    IF len < MIN_PACKET_LENGTH THEN "Underflow"
    ELSE IF len > MAX_PACKET_LENGTH THEN "Overflow"
    ELSE "none"

(***************************************************************************)
(* The raw arguments the model draws from.                                 *)
(***************************************************************************)
FieldNames == {"receiver", "sender", "duration", "length", "waiting", "periodicity"}

RawLengths ==
    { <<>>, <<"a", "b", "c">>, <<"-", "1">>, <<"-", "0">>, <<"+", "5">>, <<"1", "2", "a">>,
      <<"0">>, <<"0", "0">>, <<"1">>, <<"0", "7">>, <<"1", "5", "0", "0">>,
      <<"6", "5", "0", "0", "0">>, <<"6", "5", "0", "0", "1">>,
      <<"6", "5", "5", "3", "5">>, <<"6", "5", "5", "3", "6">>,
      <<"9", "9", "9", "9", "9">>, <<"2", "0", "0", "0", "0", "0">> }

RawAddrs ==
    { <<"1", "2", "7", ".", "0", ".", "0", ".", "1", ":", "8", "0", "8", "0">>,
      <<"1", "0", ".", "0", ".", "0", ".", "2", ":", "5", "3">>,
      <<"n", "o", "t", "-", "a", "n", "-", "a", "d", "d", "r", "e", "s", "s">>,
      <<"2", "5", "6", ".", "0", ".", "0", ".", "1", ":", "8", "0">> }

RawDurations ==
    { <<"5", "s">>, <<"1", "h">>, <<"x", "y", "z">> }

RawWaitings ==
    { <<"0", "s">>, <<"1", "h">>, <<"1", "0", "m", "s">>, <<"5">> }

RawPeriodicities ==
    { <<"1", "m", "3", "0", "s">>, <<"0", "s">>, <<"5", "s">>, <<>> }

Options(S) == {Some(s) : s \in S} \cup {None}

(***************************************************************************)
(* State.                                                                  *)
(***************************************************************************)
VARIABLES
    matches,      \* the ArgMatches: field name -> Option<&str>
    pc,           \* the position in from_matches
    lookups,      \* the names passed to value_of so far, in order
    length,       \* the local `length` and the field expressions already
    receiver,     \*   evaluated for the struct literal
    sender,
    duration,
    waiting,
    result,       \* the value from_matches returned, Pending before it returns
    rendered      \* the caller's rendering of a returned error, "" before it

vars == <<matches, pc, lookups, length, receiver, sender, duration, waiting, result,
          rendered>>

locals == <<length, receiver, sender, duration, waiting>>

InitRun ==
    /\ pc = "length"
    /\ lookups = <<>>
    /\ length = 0
    /\ receiver = NoAddr
    /\ sender = NoAddr
    /\ duration = NoDuration
    /\ waiting = NoDuration
    /\ result = Pending
    /\ rendered = ""

Init ==
    /\ \E l \in Options(RawLengths), r \in Options(RawAddrs), s \in Options(RawAddrs),
          d \in Options(RawDurations), w \in Options(RawWaitings),
          p \in Options(RawPeriodicities) :
            matches = [receiver |-> r, sender |-> s, duration |-> d, length |-> l,
                       waiting |-> w, periodicity |-> p]
    /\ InitRun

(***************************************************************************)
(* from_matches, one action per field expression.  value_of(name) is       *)
(* matches[name]; unwrap panics on None; `?` returns the mapped error.     *)
(***************************************************************************)
Panic ==
    /\ pc' = "panicked"
    /\ UNCHANGED <<locals, result>>

Return(r) ==
    /\ pc' = "done"
    /\ result' = r
    /\ UNCHANGED locals

\* matches.value_of("length").unwrap().parse().map_err(...)?
ParseLength ==
    /\ pc = "length"
    /\ lookups' = Append(lookups, "length")
    /\ IF ~matches["length"].present THEN Panic
       ELSE LET r == ParseUsize(matches["length"].str)
            IN  IF ~r.ok
                THEN Return(Err(ArgsConfigError("Length",
                                    PacketLengthError("InvalidFormat", r.err))))
                ELSE /\ length' = r.val
                     /\ pc' = "range"
                     /\ UNCHANGED <<receiver, sender, duration, waiting, result>>
    /\ UNCHANGED <<matches, rendered>>

\* if length < MIN_PACKET_LENGTH { .. } else if length > MAX_PACKET_LENGTH { .. }
CheckRange ==
    /\ pc = "range"
    /\ IF LengthRangeError(length) # "none"
       THEN Return(Err(ArgsConfigError("Length",
                           PacketLengthError(LengthRangeError(length), "none"))))
       ELSE /\ pc' = "receiver"
            /\ UNCHANGED <<locals, result>>
    /\ UNCHANGED <<matches, lookups, rendered>>

\* Mutant: the sender is looked up before the receiver's error is returned.
ParseReceiverEager ==
    /\ pc = "receiver"
    /\ IF ~matches["receiver"].present
       THEN lookups' = Append(lookups, "receiver") /\ Panic
       ELSE LET r == ParseSocketAddr(matches["receiver"].str)
            IN  IF ~r.ok
                THEN /\ lookups' = lookups \o <<"receiver", "sender">>
                     /\ Return(Err(ArgsConfigError("Receiver", r.err)))
                ELSE /\ lookups' = Append(lookups, "receiver")
                     /\ receiver' = r.val
                     /\ pc' = "sender"
                     /\ UNCHANGED <<length, sender, duration, waiting, result>>
    /\ UNCHANGED <<matches, rendered>>

ParseReceiver ==
    /\ pc = "receiver"
    /\ lookups' = Append(lookups, "receiver")
    /\ IF ~matches["receiver"].present THEN Panic
       ELSE LET r == ParseSocketAddr(matches["receiver"].str)
            IN  IF ~r.ok THEN Return(Err(ArgsConfigError("Receiver", r.err)))
                ELSE /\ receiver' = r.val
                     /\ pc' = "sender"
                     /\ UNCHANGED <<length, sender, duration, waiting, result>>
    /\ UNCHANGED <<matches, rendered>>

\* Mutant: the sender's error mapped to the Receiver variant.
ParseSenderTaggedReceiver ==
    /\ pc = "sender"
    /\ lookups' = Append(lookups, "sender")
    /\ IF ~matches["sender"].present THEN Panic
       ELSE LET r == ParseSocketAddr(matches["sender"].str)
            IN  IF ~r.ok THEN Return(Err(ArgsConfigError("Receiver", r.err)))
                ELSE /\ sender' = r.val
                     /\ pc' = "duration"
                     /\ UNCHANGED <<length, receiver, duration, waiting, result>>
    /\ UNCHANGED <<matches, rendered>>

\* Mutant: unwrap_or("") in place of unwrap: a missing sender is parsed as "".
ParseSenderNoPanic ==
    /\ pc = "sender"
    /\ lookups' = Append(lookups, "sender")
    /\ LET r == ParseSocketAddr(matches["sender"].str)
       IN  IF ~r.ok THEN Return(Err(ArgsConfigError("Sender", r.err)))
           ELSE /\ sender' = r.val
                /\ pc' = "duration"
                /\ UNCHANGED <<length, receiver, duration, waiting, result>>
    /\ UNCHANGED <<matches, rendered>>

ParseSender ==
    /\ pc = "sender"
    /\ lookups' = Append(lookups, "sender")
    /\ IF ~matches["sender"].present THEN Panic
       ELSE LET r == ParseSocketAddr(matches["sender"].str)
            IN  IF ~r.ok THEN Return(Err(ArgsConfigError("Sender", r.err)))
                ELSE /\ sender' = r.val
                     /\ pc' = "duration"
                     /\ UNCHANGED <<length, receiver, duration, waiting, result>>
    /\ UNCHANGED <<matches, rendered>>

ParseDuration ==
    /\ pc = "duration"
    /\ lookups' = Append(lookups, "duration")
    /\ IF ~matches["duration"].present THEN Panic
       ELSE LET r == parse_duration(matches["duration"].str)
            IN  IF ~r.ok THEN Return(Err(ArgsConfigError("Duration", r.err)))
                ELSE /\ duration' = r.val
                     /\ pc' = "waiting"
                     /\ UNCHANGED <<length, receiver, sender, waiting, result>>
    /\ UNCHANGED <<matches, rendered>>

\* Mutant: unwrap_or_default in place of `?`: an invalid waiting becomes zero.
ParseWaitingDefaulted ==
    /\ pc = "waiting"
    /\ lookups' = Append(lookups, "waiting")
    /\ IF ~matches["waiting"].present THEN Panic
       ELSE /\ waiting' = parse_duration(matches["waiting"].str).val
            /\ pc' = "periodicity"
            /\ UNCHANGED <<length, receiver, sender, duration, result>>
    /\ UNCHANGED <<matches, rendered>>

ParseWaiting ==
    /\ pc = "waiting"
    /\ lookups' = Append(lookups, "waiting")
    /\ IF ~matches["waiting"].present THEN Panic
       ELSE LET r == parse_duration(matches["waiting"].str)
            IN  IF ~r.ok THEN Return(Err(ArgsConfigError("Waiting", r.err)))
                ELSE /\ waiting' = r.val
                     /\ pc' = "periodicity"
                     /\ UNCHANGED <<length, receiver, sender, duration, result>>
    /\ UNCHANGED <<matches, rendered>>

\* The last field expression; with it the struct literal is complete.
ParsePeriodicity ==
    /\ pc = "periodicity"
    /\ lookups' = Append(lookups, "periodicity")
    /\ IF ~matches["periodicity"].present THEN Panic
       ELSE LET r == parse_duration(matches["periodicity"].str)
            IN  IF ~r.ok THEN Return(Err(ArgsConfigError("Periodicity", r.err)))
                ELSE Return(Ok(ArgsConfig(receiver, sender, duration, length, waiting,
                                          r.val)))
    /\ UNCHANGED <<matches, rendered>>

\* The caller formats a returned error with `{}`.
Render ==
    /\ pc = "done"
    /\ result.kind = "Err"
    /\ rendered = ""
    /\ rendered' = DisplayArgsConfigError(result.error)
    /\ UNCHANGED <<matches, pc, lookups, locals, result>>

Next ==
    \/ ParseLength
    \/ CheckRange
    \/ ParseReceiver
    \/ ParseSender
    \/ ParseDuration
    \/ ParseWaiting
    \/ ParsePeriodicity
    \/ Render

Spec == Init /\ [][Next]_vars

(***************************************************************************)
(* The exhaustive sweep of the packet length: every decimal text from 0 to *)
(* just above MAX_PACKET_LENGTH, the other five arguments valid.           *)
(***************************************************************************)
RECURSIVE ToDecimal(_)
ToDecimal(n) ==
    IF n < 10 THEN <<Digits[n + 1]>>
    ELSE Append(ToDecimal(n \div 10), Digits[(n % 10) + 1])

ValidAddrA == <<"1", "2", "7", ".", "0", ".", "0", ".", "1", ":", "8", "0", "8", "0">>
ValidAddrB == <<"1", "0", ".", "0", ".", "0", ".", "2", ":", "5", "3">>

InitRange ==
    /\ \E n \in 0..(MAX_PACKET_LENGTH + RangeSlack) :
            matches = [receiver |-> Some(ValidAddrA), sender |-> Some(ValidAddrB),
                       duration |-> Some(<<"5", "s">>), length |-> Some(ToDecimal(n)),
                       waiting |-> Some(<<"1", "h">>),
                       periodicity |-> Some(<<"1", "0", "m", "s">>)]
    /\ InitRun

SpecRange == InitRange /\ [][Next]_vars

(***************************************************************************)
(* Vocabulary of the properties.                                           *)
(***************************************************************************)
FieldOrder == <<"length", "receiver", "sender", "duration", "waiting", "periodicity">>

FieldTag ==
    [length |-> "Length", receiver |-> "Receiver", sender |-> "Sender",
     duration |-> "Duration", waiting |-> "Waiting", periodicity |-> "Periodicity"]

Raw(name) == matches[name].str

AllDigits(s) == s # <<>> /\ \A i \in 1..Len(s) : IsDigit(s[i])

\* The number a string of digits denotes, with no machine word in the way.
RECURSIVE MathValue(_)
MathValue(s) ==
    IF s = <<>> THEN 0
    ELSE MathValue(SubSeq(s, 1, Len(s) - 1)) * 10 + DigitVal(s[Len(s)])

\* A raw value that is present and individually valid.
FieldValid(name) ==
    /\ matches[name].present
    /\ CASE name = "length" ->
                /\ ParseUsize(Raw(name)).ok
                /\ ParseUsize(Raw(name)).val >= 1
                /\ ParseUsize(Raw(name)).val <= 65000
         [] name \in {"receiver", "sender"} -> ParseSocketAddr(Raw(name)).ok
         [] OTHER -> parse_duration(Raw(name)).ok

AllValid == \A name \in FieldNames : FieldValid(name)

AllPresent == \A name \in FieldNames : matches[name].present

OthersValid == \A name \in FieldNames \ {"length"} : FieldValid(name)

\* The position in FieldOrder of the first field that is not valid (7: none).
FirstNotValid ==
    IF AllValid THEN 7
    ELSE CHOOSE i \in 1..6 :
            /\ ~FieldValid(FieldOrder[i])
            /\ \A j \in 1..(i - 1) : FieldValid(FieldOrder[j])

Returned == pc = "done"

LengthError(tag) == result.kind = "Err" /\ result.error.tag = "Length"
                        /\ result.error.inner.tag = tag

\* C1: for every n in 1..65000, the decimal text of n as the raw length, the
\* other five raw values valid: from_matches returns Ok, with length = n.
C1_LengthRoundTrip ==
    LET raw == Raw("length")
        n == MathValue(raw)
    IN  (/\ Returned
         /\ matches["length"].present /\ AllDigits(raw)
         /\ n >= 1 /\ n <= 65000 /\ raw = ToDecimal(n)
         /\ OthersValid)
        => (result.kind = "Ok" /\ result.config.length = n)

C1_Witness ==
    /\ Returned
    /\ Raw("length") = <<"6", "5", "0", "0", "0">>
    /\ result.kind = "Ok"
    /\ result.config.length = 65000

\* C2: a raw length that does not parse yields Length(InvalidFormat(e)); a
\* parsed value below 1 yields Length(Underflow); a parsed value above 65000
\* yields Length(Overflow); in all three cases no config is returned.
C2_LengthClassified ==
    LET raw == Raw("length")
        parsed == ParseUsize(raw)
    IN  (matches["length"].present /\ Returned) =>
            /\ ~parsed.ok =>
                    /\ LengthError("InvalidFormat")
                    /\ result.error.inner.inner = parsed.err
            /\ (parsed.ok /\ parsed.val < 1) => LengthError("Underflow")
            /\ (parsed.ok /\ parsed.val > 65000) => LengthError("Overflow")
            /\ raw = <<"0">> => LengthError("Underflow")
            /\ raw = <<"6", "5", "0", "0", "1">> => LengthError("Overflow")
            /\ raw = <<"a", "b", "c">> => LengthError("InvalidFormat")
            /\ result.kind = "Err" /\ result.error.tag = "Length"
                    => /\ result.config = NoConfig
                       /\ Cardinality({tag \in {"InvalidFormat", "Underflow", "Overflow"} :
                                          LengthError(tag)}) = 1

C2_Witness ==
    /\ Returned
    /\ Raw("length") = <<"6", "5", "0", "0", "1">>
    /\ LengthError("Overflow")

\* C3: the error returned is tagged with the first invalid field in the
\* order length, receiver, sender, duration, waiting, periodicity; with
\* length and receiver both invalid it is a Length error, never Receiver.
C3_FirstInvalidFieldWins ==
    /\ result.kind = "Err" =>
            /\ FirstNotValid <= 6
            /\ matches[FieldOrder[FirstNotValid]].present
            /\ result.error.tag = FieldTag[FieldOrder[FirstNotValid]]
    /\ (Returned /\ AllPresent /\ ~AllValid) => result.kind = "Err"
    /\ (Returned /\ AllPresent /\ ~FieldValid("length") /\ ~FieldValid("receiver"))
            => (result.kind = "Err" /\ result.error.tag = "Length")

C3_Witness ==
    /\ Returned
    /\ AllPresent /\ ~FieldValid("length") /\ ~FieldValid("receiver")
    /\ result.kind = "Err" /\ result.error.tag = "Length"

\* C4: from_matches returns Ok(config) if and only if each of the six raw
\* values is individually valid; otherwise it returns no config.  No relation
\* between waiting, periodicity and duration causes a failure.
C4_OkIffAllValid ==
    /\ Returned => (result.kind = "Ok" <=> AllValid)
    /\ AllValid => pc # "panicked"
    /\ result.kind # "Ok" => result.config = NoConfig
    /\ result.kind = "Ok" => Returned

\* waiting (1h) exceeds duration (5s) and periodicity is a zero span
C4_Witness ==
    /\ Returned
    /\ result.kind = "Ok"
    /\ result.config.waiting[1] > result.config.duration[1]
    /\ result.config.periodicity = <<0, 0>>

\* C5: each field of the returned config equals the parsed value of the raw
\* value looked up under the same name.
C5_FieldsFromSameName ==
    result.kind = "Ok" =>
        /\ result.config.receiver = ParseSocketAddr(Raw("receiver")).val
        /\ result.config.sender = ParseSocketAddr(Raw("sender")).val
        /\ result.config.duration = parse_duration(Raw("duration")).val
        /\ result.config.length = ParseUsize(Raw("length")).val
        /\ result.config.waiting = parse_duration(Raw("waiting")).val
        /\ result.config.periodicity = parse_duration(Raw("periodicity")).val

C5_Witness ==
    /\ result.kind = "Ok"
    /\ result.config.receiver = [ip |-> <<127, 0, 0, 1>>, port |-> 8080]
    /\ result.config.sender = [ip |-> <<10, 0, 0, 2>>, port |-> 53]
    /\ result.config.duration = <<5, 0>>
    /\ result.config.length = 1500
    /\ result.config.waiting = <<0, 10000000>>
    /\ result.config.periodicity = <<90, 0>>

\* C6: every config returned satisfies MIN_PACKET_LENGTH <= length <=
\* MAX_PACKET_LENGTH: no Ok result has length 0 or length above 65000.
C6_LengthInRange ==
    result.kind = "Ok" =>
        /\ result.config.length >= 1
        /\ result.config.length <= 65000
        /\ MathValue(IF Head(Raw("length")) = "+" THEN Tail(Raw("length"))
                     ELSE Raw("length")) \in 1..65000

C6_Witness ==
    /\ result.kind = "Ok"
    /\ result.config.length = 1

\* C7 as stated: if the argument source has no value for one of the six
\* field names, from_matches panics and returns no ConfigError (nor a config).
C7_MissingAlwaysPanics ==
    (\E name \in FieldNames : ~matches[name].present) =>
        /\ result = Pending
        /\ pc # "done"

\* C7: a look-up that yields no value panics, and from_matches then returns
\* neither a ConfigError nor a config; a field with no value that comes after
\* the first invalid field is never looked up, and that invalid field's
\* ConfigError is returned.
C7_MissingPanicsWhenLookedUp ==
    LET first == FirstNotValid
        failing == FieldOrder[first]
    IN  /\ (lookups # <<>> /\ ~matches[lookups[Len(lookups)]].present) =>
                (pc = "panicked" /\ result = Pending /\ rendered = "")
        /\ pc = "panicked" =>
                (lookups # <<>> /\ ~matches[lookups[Len(lookups)]].present)
        /\ (first <= 6 /\ ~matches[failing].present) =>
                (result = Pending /\ pc # "done")
        /\ (first <= 6 /\ matches[failing].present) =>
                /\ pc # "panicked"
                /\ \A k \in 1..Len(lookups) :
                        \E j \in 1..first : lookups[k] = FieldOrder[j]
                /\ Returned => (result.kind = "Err"
                                /\ result.error.tag = FieldTag[failing])

\* the sender has no value, is looked up, and from_matches panics there
C7_Witness ==
    /\ pc = "panicked"
    /\ lookups = <<"length", "receiver", "sender">>
    /\ ~matches["sender"].present
    /\ result = Pending

\* The wording of each error variant's rendering, as documented.
DocumentedLengthDetail(e) ==
    CASE e.tag = "Overflow" -> "Overflow occurred"
      [] e.tag = "Underflow" -> "Underflow occurred"
      [] OTHER -> ParseIntErrorMessage(e.inner)

DocumentedPrefix ==
    [Receiver |-> "An invalid receiver address was specified: ",
     Sender |-> "An invalid sender address was specified: ",
     Duration |-> "An invalid duration format was specified: ",
     Length |-> "An invalid packet length was specified: ",
     Waiting |-> "An invalid waiting duration was specified: ",
     Periodicity |-> "An invalid periodicity was specified: "]

DocumentedSuffix(tag) ==
    IF tag = "Length" THEN ". A packet length must be in the range of [1; 65000]!"
    ELSE "!"

Underlying(e) ==
    CASE e.tag = "Length" -> DocumentedLengthDetail(e.inner)
      [] e.tag \in {"Receiver", "Sender"} -> AddrParseErrorMessage(e.inner)
      [] OTHER -> DurationErrorMessage(e.inner)

\* C8: the rendering of each error variant is the fixed template of that
\* variant, distinct per variant, with the underlying error's message
\* substituted verbatim ("Overflow occurred" / "Underflow occurred" / the
\* integer-parse message for Length).
C8_DisplayTemplates ==
    /\ rendered # "" =>
            /\ result.kind = "Err"
            /\ rendered = DocumentedPrefix[result.error.tag]
                            \o Underlying(result.error)
                            \o DocumentedSuffix(result.error.tag)
    /\ \A a, b \in DOMAIN DocumentedPrefix :
            a # b => DocumentedPrefix[a] # DocumentedPrefix[b]

C8_Witness ==
    /\ LengthError("Overflow")
    /\ rendered = "An invalid packet length was specified: Overflow occurred. "
                    \o "A packet length must be in the range of [1; 65000]!"

IsPrefix(s, u) == Len(s) <= Len(u) /\ s = SubSeq(u, 1, Len(s))

TagPosition(tag) == CHOOSE i \in 1..6 : FieldTag[FieldOrder[i]] = tag

\* The field expressions from position i (2..7) on have not been evaluated.
NotEvaluatedFrom(i) ==
    /\ i <= 2 => receiver = NoAddr
    /\ i <= 3 => sender = NoAddr
    /\ i <= 4 => duration = NoDuration
    /\ i <= 5 => waiting = NoDuration

\* C9: the fields are looked up in the order length, receiver, sender,
\* duration, waiting, periodicity, and once a field fails validation no later
\* field is looked up or parsed.
C9_StopsAtFirstFailure ==
    /\ IsPrefix(lookups, FieldOrder)
    /\ result.kind = "Err" =>
            /\ lookups = SubSeq(FieldOrder, 1, TagPosition(result.error.tag))
            /\ NotEvaluatedFrom(TagPosition(result.error.tag) + 1)
    /\ result.kind = "Ok" => lookups = FieldOrder

\* length fails; the five later fields, all valid, are never looked up
C9_Witness ==
    /\ Returned
    /\ result.kind = "Err" /\ result.error.tag = "Length"
    /\ OthersValid
    /\ lookups = <<"length">>
    /\ rendered # ""

IsNegativeNumber(s) == Len(s) >= 2 /\ s[1] = "-" /\ AllDigits(Tail(s))

Unsigned(s) == IF s # <<>> /\ s[1] = "+" THEN Tail(s) ELSE s

\* C10: Underflow and Overflow are produced only for raw lengths that parse
\* as a machine-word unsigned integer.  A raw length denoting a negative
\* number, or a number of 2^w or more, yields Length(InvalidFormat(_));
\* Underflow is returned only when the value is exactly 0.
C10_RangeErrorsOnlyForWordSized ==
    LET raw == Raw("length")
    IN  /\ (Returned /\ matches["length"].present /\ IsNegativeNumber(raw))
                => LengthError("InvalidFormat")
        /\ (Returned /\ matches["length"].present /\ AllDigits(Unsigned(raw))
                /\ MathValue(Unsigned(raw)) >= 2^UsizeBits)
                => LengthError("InvalidFormat")
        /\ (LengthError("Underflow") \/ LengthError("Overflow")) =>
                /\ AllDigits(Unsigned(raw))
                /\ MathValue(Unsigned(raw)) < 2^UsizeBits
        /\ LengthError("Underflow") => MathValue(Unsigned(raw)) = 0
        /\ LengthError("Overflow") => MathValue(Unsigned(raw)) > 65000

\* a number too large for the machine word is a format error, not Overflow
C10_Witness ==
    /\ Returned
    /\ AllDigits(Raw("length"))
    /\ MathValue(Raw("length")) >= 2^UsizeBits
    /\ LengthError("InvalidFormat")
    /\ result.error.inner.inner = "PosOverflow"

\* a negative number is a format error, not Underflow
C10_WitnessNegative ==
    /\ Returned
    /\ Raw("length") = <<"-", "1">>
    /\ LengthError("InvalidFormat")

=============================================================================
